---- MODULE Spec2Model ----
(***************************************************************************)
(* Modbus RTU frame codec of the power-meter web monitor.                  *)
(*                                                                         *)
(*   web/templates/js/modbus.js  calculateCRC, buildModbusCommand          *)
(*   web/templates/js/ui.js      the copies inlined in the page script:    *)
(*                               calculateCRC, buildModbusCommand (reads   *)
(*                               the form fields), displayCommand          *)
(*                                                                         *)
(* JavaScript numbers are modelled as integers; the bitwise operators work *)
(* on 32-bit two's complement values, as in the language.  Every number    *)
(* the model feeds to them lies within the signed 32-bit range, where      *)
(* ToInt32 is the identity.  JavaScript strings are sequences of           *)
(* one-character strings.                                                  *)
(***************************************************************************)
EXTENDS Integers, Sequences, FiniteSets, TLC

VARIABLES op, args, ret, outcome, dom, kept, inflight, page

vars == <<op, args, ret, outcome, dom, kept, inflight, page>>

----------------------------------------------------------------------------
(* JavaScript integer operators (ECMAScript: signed 32-bit operands).      *)

(* An operand is taken four bits at a time; the operator on four bits is a  *)
(* table, written bit by bit.  x \div 16 and x % 16 split a two's           *)
(* complement value into its upper bits and its lowest four, and the        *)
(* values 0 (all bits clear) and -1 (all bits set) end the descent.         *)

NibbleBit(x, k) == (x \div (2 ^ k)) % 2

XorNibble ==
    [x \in 0..15 |-> [y \in 0..15 |->
        ((NibbleBit(x, 0) + NibbleBit(y, 0)) % 2)
        + 2 * ((NibbleBit(x, 1) + NibbleBit(y, 1)) % 2)
        + 4 * ((NibbleBit(x, 2) + NibbleBit(y, 2)) % 2)
        + 8 * ((NibbleBit(x, 3) + NibbleBit(y, 3)) % 2)]]

AndNibble ==
    [x \in 0..15 |-> [y \in 0..15 |->
        (NibbleBit(x, 0) * NibbleBit(y, 0))
        + 2 * (NibbleBit(x, 1) * NibbleBit(y, 1))
        + 4 * (NibbleBit(x, 2) * NibbleBit(y, 2))
        + 8 * (NibbleBit(x, 3) * NibbleBit(y, 3))]]

\* a ^ b
RECURSIVE BitXor(_, _)
BitXor(a, b) ==
    IF a = 0 THEN b
    ELSE IF b = 0 THEN a
    ELSE IF a = -1 THEN -1 - b
    ELSE IF b = -1 THEN -1 - a
    ELSE 16 * BitXor(a \div 16, b \div 16) + XorNibble[a % 16][b % 16]

\* a & b
RECURSIVE BitAnd(_, _)
BitAnd(a, b) ==
    IF a = 0 \/ b = 0 THEN 0
    ELSE IF a = -1 THEN b
    ELSE IF b = -1 THEN a
    ELSE 16 * BitAnd(a \div 16, b \div 16) + AndNibble[a % 16][b % 16]

\* a | b = (a ^ b) + (a & b): the bits set in one operand only, and the bits
\* set in both
BitOr(a, b) == BitXor(a, b) + BitAnd(a, b)

\* a >> n (sign-propagating)
Shr(a, n) == a \div (2 ^ n)

----------------------------------------------------------------------------
(* Constants of modbus.js.                                                 *)

READ_HOLDING_REGISTERS == 3
READ_INPUT_REGISTERS == 4
WRITE_SINGLE_REGISTER == 6
WRITE_MULTIPLE_REGISTERS == 16

\* crc = 0xFFFF
CRC_INIT == 65535
\* 0xA001
CRC_POLY == 40961
\* registerAddress >= 40001
ADDRESS_OFFSET == 40001

----------------------------------------------------------------------------
(* calculateCRC(data)                                                      *)

\* (mutant) the rounds with the unreflected polynomial 0x8005
RECURSIVE CrcRoundsUnreflected(_, _)
CrcRoundsUnreflected(crc, j) ==
    IF j >= 8 THEN crc
    ELSE IF BitAnd(crc, 1) # 0
         THEN CrcRoundsUnreflected(BitXor(Shr(crc, 1), 32773), j + 1)
         ELSE CrcRoundsUnreflected(Shr(crc, 1), j + 1)

\* for (let j = 0; j < 8; j++) { ... }: the j-th and later rounds
RECURSIVE CrcRounds(_, _)
CrcRounds(crc, j) ==
    IF j >= 8 THEN crc
    ELSE IF BitAnd(crc, 1) # 0
         THEN CrcRounds(BitXor(Shr(crc, 1), CRC_POLY), j + 1)
         ELSE CrcRounds(Shr(crc, 1), j + 1)

\* for (let i = 0; i < data.length; i++) { crc ^= data[i]; ... }
\* The loop over the elements lo..hi (1-based) started with the accumulator
\* crc is the loop over the first half followed by the loop over the second
\* half; functions, so that the accumulator is a value at every step.
CrcLoop[data \in Seq(Int)] ==
    LET loop[lo \in Nat, hi \in Nat, crc \in Int] ==
            IF lo > hi THEN crc
            ELSE IF lo = hi THEN CrcRounds(BitXor(crc, data[lo]), 0)
            ELSE loop[((lo + hi) \div 2) + 1, hi,
                      loop[lo, (lo + hi) \div 2, crc]]
    IN  loop[1, Len(data), CRC_INIT]

\* (mutant) the result with the high byte first
CrcResultHighFirst(crc) == <<Shr(crc, 8), BitAnd(crc, 255)>>

\* return [(crc & 0xFF), (crc >> 8)]
CrcResult(crc) == <<BitAnd(crc, 255), Shr(crc, 8)>>

CalculateCRC(data) == CrcResult(CrcLoop[data])

----------------------------------------------------------------------------
(* Number.prototype.toString(16), String.prototype.toUpperCase, padStart,  *)
(* Array.prototype.join on strings held as sequences of characters.        *)

HexDigitsLower ==
    <<"0", "1", "2", "3", "4", "5", "6", "7", "8", "9",
      "a", "b", "c", "d", "e", "f">>

\* the digits of n >= 0 in the given radix, most significant first
RECURSIVE DigitsOf(_, _)
DigitsOf(n, radix) ==
    IF n < radix THEN <<HexDigitsLower[n + 1]>>
    ELSE Append(DigitsOf(n \div radix, radix), HexDigitsLower[(n % radix) + 1])

\* n.toString(radix) for an integer n: a minus sign, then the magnitude
NumToString(n, radix) ==
    IF n < 0 THEN <<"-">> \o DigitsOf(-n, radix) ELSE DigitsOf(n, radix)

UpperChar(c) ==
    CASE c = "a" -> "A" [] c = "b" -> "B" [] c = "c" -> "C"
      [] c = "d" -> "D" [] c = "e" -> "E" [] c = "f" -> "F"
      [] OTHER -> c

\* s.toUpperCase()
ToUpperCase(s) == [k \in 1..Len(s) |-> UpperChar(s[k])]

\* s.padStart(n, c) with a one-character filler
RECURSIVE PadStart(_, _, _)
PadStart(s, n, c) == IF Len(s) >= n THEN s ELSE PadStart(<<c>> \o s, n, c)

\* parts.join(sep): the first half joined, the separator, the second half
\* joined
JoinLoop[parts \in Seq(Seq(STRING)), sep \in Seq(STRING)] ==
    LET joined[lo \in Nat, hi \in Nat] ==
            IF lo > hi THEN <<>>
            ELSE IF lo = hi THEN parts[lo]
            ELSE joined[lo, (lo + hi) \div 2] \o sep
                 \o joined[((lo + hi) \div 2) + 1, hi]
    IN  joined[1, Len(parts)]

Join(parts, sep) == JoinLoop[parts, sep]

----------------------------------------------------------------------------
(* buildModbusCommand(deviceAddress, functionCode, registerAddress,        *)
(*                    registerCount = 1, registerValues = null)            *)
(* registerValues is [present |-> FALSE, vals |-> <<>>] for null and       *)
(* [present |-> TRUE, vals |-> the array] for an array.                    *)

NullValues == [present |-> FALSE, vals |-> <<>>]
ArrayValues(v) == [present |-> TRUE, vals |-> v]

\* (mutant) the threshold itself is not translated
TranslateAddressAbove(registerAddress) ==
    IF registerAddress > ADDRESS_OFFSET
    THEN registerAddress - ADDRESS_OFFSET
    ELSE registerAddress

\* (mutant) the offset is taken off as long as the address is conventional
RECURSIVE TranslateAddressRepeated(_)
TranslateAddressRepeated(registerAddress) ==
    IF registerAddress >= ADDRESS_OFFSET
    THEN TranslateAddressRepeated(registerAddress - ADDRESS_OFFSET)
    ELSE registerAddress

\* if (registerAddress >= 40001) registerAddress = registerAddress - 40001
TranslateAddress(registerAddress) ==
    IF registerAddress >= ADDRESS_OFFSET
    THEN registerAddress - ADDRESS_OFFSET
    ELSE registerAddress

\* [(x >> 8) & 0xFF, x & 0xFF]
HiLo(x) == <<BitAnd(Shr(x, 8), 255), BitAnd(x, 255)>>

\* (mutant) the command array is shared by the calls and never emptied
HeaderOnSharedArray(deviceAddress, functionCode, registerAddress) ==
    (IF kept.present THEN kept.ret.command ELSE <<>>)
    \o <<deviceAddress, functionCode,
         BitAnd(Shr(registerAddress, 8), 255), BitAnd(registerAddress, 255)>>

\* const command = [deviceAddress, functionCode, addrHi, addrLo]
Header(deviceAddress, functionCode, registerAddress) ==
    <<deviceAddress, functionCode>> \o HiLo(registerAddress)

\* registerValues && registerValues.length
HasValues(registerValues) ==
    registerValues.present /\ Len(registerValues.vals) > 0

\* The two loops of the WRITE_MULTIPLE_REGISTERS branch push, in iteration i
\* (0-based), the high and then the low byte of one value: element k
\* (1-based) of what they push belongs to iteration (k - 1) \div 2.
PushedByte(value, k) == HiLo(value)[((k - 1) % 2) + 1]

Iterations(registerCount) == IF registerCount > 0 THEN registerCount ELSE 0

\* (mutant) one pair of bytes per element of registerValues
WriteValuesPerElement(registerCount, registerValues) ==
    IF HasValues(registerValues)
    THEN [k \in 1..(2 * Len(registerValues.vals)) |->
            PushedByte(registerValues.vals[((k - 1) \div 2) + 1], k)]
    ELSE [k \in 1..(2 * Iterations(registerCount)) |-> 0]

\* (mutant) a missing entry repeats the last value given
WriteValuesRepeatLast(registerCount, registerValues) ==
    IF HasValues(registerValues)
    THEN [k \in 1..(2 * Iterations(registerCount)) |->
            PushedByte(IF (k - 1) \div 2 < Len(registerValues.vals)
                       THEN registerValues.vals[((k - 1) \div 2) + 1]
                       ELSE registerValues.vals[Len(registerValues.vals)], k)]
    ELSE [k \in 1..(2 * Iterations(registerCount)) |-> 0]

\* if (registerValues && registerValues.length) { for ... } else { for ... }
WriteValues(registerCount, registerValues) ==
    IF HasValues(registerValues)
    THEN [k \in 1..(2 * Iterations(registerCount)) |->
            PushedByte(IF (k - 1) \div 2 < Len(registerValues.vals)
                       THEN registerValues.vals[((k - 1) \div 2) + 1]
                       ELSE 0, k)]
    ELSE [k \in 1..(2 * Iterations(registerCount)) |-> 0]

\* (mutant) a read takes its count from registerValues when there is one
PayloadReadFromValues(functionCode, registerCount, registerValues) ==
    IF functionCode = READ_HOLDING_REGISTERS
       \/ functionCode = READ_INPUT_REGISTERS
    THEN HiLo(IF HasValues(registerValues) THEN registerValues.vals[1]
                                           ELSE registerCount)
    ELSE IF functionCode = WRITE_SINGLE_REGISTER
    THEN HiLo(IF HasValues(registerValues) THEN registerValues.vals[1] ELSE 0)
    ELSE IF functionCode = WRITE_MULTIPLE_REGISTERS
    THEN HiLo(registerCount) \o <<registerCount * 2>>
         \o WriteValues(registerCount, registerValues)
    ELSE <<>>

\* the if / else if chain on functionCode
Payload(functionCode, registerCount, registerValues) ==
    IF functionCode = READ_HOLDING_REGISTERS
       \/ functionCode = READ_INPUT_REGISTERS
    THEN HiLo(registerCount)
    ELSE IF functionCode = WRITE_SINGLE_REGISTER
    THEN HiLo(IF HasValues(registerValues) THEN registerValues.vals[1] ELSE 0)
    ELSE IF functionCode = WRITE_MULTIPLE_REGISTERS
    THEN HiLo(registerCount) \o <<registerCount * 2>>
         \o WriteValues(registerCount, registerValues)
    ELSE <<>>

\* (mutant) the CRC is taken over the four bytes of the header only
AppendCRCOfHeader(command) ==
    LET crc == CalculateCRC(SubSeq(command, 1, 4))
    IN  command \o <<crc[1], crc[2]>>

\* (mutant) the CRC is pushed high byte first
AppendCRCHighFirst(command) ==
    LET crc == CalculateCRC(command) IN command \o <<crc[2], crc[1]>>

\* const crc = calculateCRC(command); command.push(crc[0], crc[1])
AppendCRC(command) ==
    LET crc == CalculateCRC(command) IN command \o <<crc[1], crc[2]>>

\* byte.toString(16).padStart(2, '0').toUpperCase(), joined by ' '
HexCommand(command) ==
    Join([k \in 1..Len(command) |->
            ToUpperCase(PadStart(NumToString(command[k], 16), 2, "0"))],
         <<" ">>)

\* '0x' + x.toString(16).toUpperCase().padStart(n, '0')
HexLabel(x, n) == <<"0", "x">> \o PadStart(ToUpperCase(NumToString(x, 16)), n, "0")

BuildModbusCommand(deviceAddress, functionCode, registerAddress, registerCount, registerValues) ==
    LET modbusAddress == TranslateAddress(registerAddress)
        command == AppendCRC(Header(deviceAddress, functionCode, modbusAddress)
                             \o Payload(functionCode, registerCount,
                                        registerValues))
    IN  [command |-> command,
         originalAddress |-> registerAddress,
         modbusAddress |-> modbusAddress,
         hexAddress |-> HexLabel(modbusAddress, 4),
         highByte |-> HexLabel(BitAnd(Shr(modbusAddress, 8), 255), 2),
         lowByte |-> HexLabel(BitAnd(modbusAddress, 255), 2),
         hexCommand |-> HexCommand(command)]

----------------------------------------------------------------------------
(* The page script (ui.js): its own calculateCRC and a buildModbusCommand  *)
(* that reads the four form fields.  The fields are <input type="number">  *)
(* and a <select>; the model holds decimal integer strings in them.        *)

DigitValue(c) ==
    CASE c = "0" -> 0 [] c = "1" -> 1 [] c = "2" -> 2 [] c = "3" -> 3
      [] c = "4" -> 4 [] c = "5" -> 5 [] c = "6" -> 6 [] c = "7" -> 7
      [] c = "8" -> 8 [] c = "9" -> 9 [] OTHER -> -1

\* the leading decimal digits of s from position k, folded into acc
RECURSIVE ParseDigits(_, _, _)
ParseDigits(s, k, acc) ==
    IF k > Len(s) \/ DigitValue(s[k]) < 0 THEN acc
    ELSE ParseDigits(s, k + 1, 10 * acc + DigitValue(s[k]))

\* parseInt(s) for a string that starts with an optional sign and a digit
ParseInt(s) ==
    IF Len(s) > 0 /\ s[1] = "-" THEN -ParseDigits(s, 2, 0)
    ELSE IF Len(s) > 0 /\ s[1] = "+" THEN ParseDigits(s, 2, 0)
    ELSE ParseDigits(s, 1, 0)

\* ui.js calculateCRC: the same text as the one of modbus.js
UiCalculateCRC(data) == CrcResult(CrcLoop[data])

\* if (registerAddress >= 40001 && registerAddress <= 49999) ...
UiTranslateAddress(registerAddress) ==
    IF registerAddress >= ADDRESS_OFFSET /\ registerAddress <= 49999
    THEN registerAddress - ADDRESS_OFFSET
    ELSE registerAddress

\* for (let i = 0; i < registerCount; i++) { push(0x00); push(0x00) }
UiZeros(registerCount) == [k \in 1..(2 * Iterations(registerCount)) |-> 0]

\* the if / else if chain on functionCode of the page script
UiPayload(functionCode, registerCount) ==
    IF functionCode = 3 \/ functionCode = 4
    THEN HiLo(registerCount)
    ELSE IF functionCode = 6
    THEN HiLo(registerCount)
    ELSE IF functionCode = 16
    THEN HiLo(registerCount) \o <<registerCount * 2>>
         \o UiZeros(registerCount)
    ELSE <<>>

\* const crc = calculateCRC(command); command.push(crc[0], crc[1])
UiAppendCRC(command) ==
    LET crc == UiCalculateCRC(command) IN command \o <<crc[1], crc[2]>>

\* the command array the page script builds from the form fields
UiCommand(fields) ==
    LET deviceAddress == ParseInt(fields.modbusAddress)
        functionCode == ParseInt(fields.modbusFunctionCode)
        registerAddress == UiTranslateAddress(ParseInt(fields.modbusRegisterAddress))
        registerCount == ParseInt(fields.modbusRegisterCount)
    IN  UiAppendCRC(<<deviceAddress, functionCode>> \o HiLo(registerAddress)
                    \o UiPayload(functionCode, registerCount))

\* the register-note element inserted after the command display
UiNote(fields) ==
    LET modbusAddress == UiTranslateAddress(ParseInt(fields.modbusRegisterAddress))
    IN  [originalAddress |-> fields.modbusRegisterAddress,
         modbusAddress |-> modbusAddress,
         hexAddress |-> HexLabel(modbusAddress, 4),
         highByte |-> HexLabel(BitAnd(Shr(modbusAddress, 8), 255), 2),
         lowByte |-> HexLabel(BitAnd(modbusAddress, 255), 2)]

\* displayCommand(command): the text put into #modbusCommand
DisplayCommand(command) == HexCommand(command)

----------------------------------------------------------------------------
(* Inputs.                                                                 *)

\* longest byte sequence handed to calculateCRC directly
MaxCrcLen == 3
\* longest registerValues array
MaxValuesLen == 2
\* largest registerCount of a multiple-register write
MaxWriteCount == 123

BoundedSeqs(S, n) == UNION {[1..k -> S] : k \in 0..n}

CrcByteSamples == {0, 1, 3, 10, 128, 132, 255}

CrcInputs ==
    BoundedSeqs(CrcByteSamples, MaxCrcLen)
    \cup {<<b>> : b \in 0..255}
    \cup {<<1, 3, 0, 0, 0, 1>>, <<1, 3, 0, 0, 0, 1, 132, 10>>}

DeviceSamples == {1, 247, 300}
FunctionSamples == {3, 4, 6, 16, 5, 131}
AddressSamples ==
    {-1, 0, 1, 255, 256, 40000, 40001, 40002, 49999, 50000, 65535, 70000,
     80002, 105537}
CountSamples == {1, 2, 125, 300}
ValueSamples == {4660, 43981}

\* registerValues: null, or an array
ValueArgs ==
    {NullValues}
    \cup {ArrayValues(v) : v \in BoundedSeqs(ValueSamples, MaxValuesLen)}
    \cup {ArrayValues(<<70000>>), ArrayValues(<<7, 8, 9>>)}

\* registerValues for a write of cnt registers: absent, one value, as many
\* values as registers, one value more
LongValueArgs(cnt) ==
    {NullValues}
    \cup {ArrayValues([k \in 1..n |-> 4660 + k]) : n \in {1, cnt, cnt + 1}}

BuildArgs(dev, fn, addr, cnt, vals) ==
    [deviceAddress |-> dev, functionCode |-> fn, registerAddress |-> addr,
     registerCount |-> cnt, registerValues |-> vals]

\* short frames for every address, for every device address and for every
\* count, and multiple-register writes of every count
BuildInputs ==
    {BuildArgs(1, fn, addr, cnt, vals) :
        fn \in FunctionSamples, addr \in AddressSamples,
        cnt \in {c \in CountSamples : c <= 2}, vals \in ValueArgs}
    \cup {BuildArgs(dev, fn, addr, cnt, vals) :
        dev \in DeviceSamples, fn \in FunctionSamples, addr \in {0, 40001},
        cnt \in {c \in CountSamples : c <= 2}, vals \in ValueArgs}
    \cup {BuildArgs(1, fn, addr, cnt, vals) :
        fn \in {3, 4, 6}, addr \in {0, 40001},
        cnt \in CountSamples, vals \in ValueArgs}
    \cup UNION {{BuildArgs(1, WRITE_MULTIPLE_REGISTERS, 0, cnt, vals) :
                    vals \in LongValueArgs(cnt)} :
                 cnt \in (0..MaxWriteCount) \cup {128}}

\* what the user can put into the form of the page
UiAddressFields == {<<"1">>, <<"1", "7">>}
UiFunctionFields == {<<"3">>, <<"4">>, <<"6">>, <<"1", "6">>}
UiRegisterFields ==
    {<<"0">>, <<"4", "0", "0", "0", "1">>, <<"5", "0", "0", "0", "0">>,
     <<"7", "0", "0", "0", "0">>}
UiCountFields == {<<"1">>, <<"5">>}

----------------------------------------------------------------------------
(* State.                                                                  *)
(*   op       the function that ran last ("none" when no result is held)   *)
(*   args     its arguments                                                *)
(*   ret      its return value                                             *)
(*   outcome  "returned", or the name of the error it threw                *)
(*   dom      the form fields and displays of the Modbus panel             *)
(*   kept     a result a caller of buildModbusCommand has put aside         *)
(*   inflight the requests sent to the server and not yet answered         *)
(*   page     the tabs of the page, and the script state of the dashboard   *)

NoNote == [originalAddress |-> <<>>, modbusAddress |-> 0, hexAddress |-> <<>>,
           highByte |-> <<>>, lowByte |-> <<>>]

InitialDom ==
    [modbusAddress |-> <<"1">>,
     modbusFunctionCode |-> <<"3">>,
     modbusRegisterAddress |-> <<"0">>,
     modbusRegisterCount |-> <<"1">>,
     modbusCommand |-> <<"-", "-">>,
     hasNote |-> FALSE,
     note |-> NoNote,
     modbusResponse |-> [kind |-> "text", text |-> "--"],
     modbusParsedResponse |-> [kind |-> "text", text |-> "--"]]

NothingKept == [present |-> FALSE]

\* let API_BASE_URL = 'http://localhost:8080/api'
DEFAULT_API_BASE_URL == "http://localhost:8080/api"

\* the tabs and panels of the markup, and the script of the dashboard before
\* DOMContentLoaded
InitialPage ==
    [tabs |-> [t \in {"mainTab", "registerTab"} |-> t = "mainTab"],
     panels |-> [c \in {"mainTab", "debugTab", "rawDataTab", "registerTab"}
                   |-> c = "mainTab"],
     phase |-> "init",
     API_BASE_URL |-> DEFAULT_API_BASE_URL,
     config |-> [kind |-> "none"],
     timer |-> FALSE,
     started |-> 0,
     connectionStatus |-> [text |-> "Conectado", seq |-> 0],
     powerData |-> [seq |-> 0],
     newestData |-> 0]

Init ==
    /\ op = "none"
    /\ args = <<>>
    /\ ret = <<>>
    /\ outcome = "none"
    /\ dom = InitialDom
    /\ kept = NothingKept
    /\ inflight = <<>>
    /\ page = InitialPage

\* a caller runs calculateCRC(data) of modbus.js or of the page script
CallCalculateCRC ==
    \E copy \in {"modbus.js", "ui.js"}, data \in CrcInputs :
        /\ op = "none"
        /\ op' = "calculateCRC"
        /\ args' = [copy |-> copy, data |-> data]
        /\ ret' = IF copy = "modbus.js" THEN CalculateCRC(data)
                                        ELSE UiCalculateCRC(data)
        /\ outcome' = "returned"
        /\ UNCHANGED <<dom, kept, inflight, page>>

\* a caller runs buildModbusCommand of modbus.js with all five arguments
CallBuildModbusCommand ==
    \E a \in BuildInputs :
        /\ op = "none"
        /\ op' = "buildModbusCommand"
        /\ args' = a
        /\ ret' = BuildModbusCommand(a.deviceAddress, a.functionCode,
                                     a.registerAddress, a.registerCount,
                                     a.registerValues)
        /\ outcome' = "returned"
        /\ UNCHANGED <<dom, kept, inflight, page>>

\* a caller leaves out registerCount and registerValues (defaults 1, null)
CallBuildModbusCommandDefaults ==
    \E dev \in DeviceSamples, fn \in FunctionSamples, addr \in AddressSamples :
        /\ op = "none"
        /\ op' = "buildModbusCommand"
        /\ args' = BuildArgs(dev, fn, addr, 1, NullValues)
        /\ ret' = BuildModbusCommand(dev, fn, addr, 1, NullValues)
        /\ outcome' = "returned"
        /\ UNCHANGED <<dom, kept, inflight, page>>

\* the caller has used the result and drops it
Discard ==
    /\ op \in {"calculateCRC", "buildModbusCommand",
              "parseAndDisplayResponse"}
    /\ op' = "none"
    /\ args' = <<>>
    /\ ret' = <<>>
    /\ outcome' = "none"
    /\ UNCHANGED <<dom, kept, inflight, page>>

Next ==
    \/ CallCalculateCRC
    \/ CallBuildModbusCommand
    \/ CallBuildModbusCommandDefaults
    \/ Discard

Spec == Init /\ [][Next]_vars

----------------------------------------------------------------------------
(* The page: the user edits the form and clicks "build".                   *)

EditModbusAddress ==
    \E v \in UiAddressFields :
        /\ dom' = [dom EXCEPT !.modbusAddress = v]
        /\ UNCHANGED <<op, args, ret, outcome, kept, inflight, page>>

EditModbusFunctionCode ==
    \E v \in UiFunctionFields :
        /\ dom' = [dom EXCEPT !.modbusFunctionCode = v]
        /\ UNCHANGED <<op, args, ret, outcome, kept, inflight, page>>

EditModbusRegisterAddress ==
    \E v \in UiRegisterFields :
        /\ dom' = [dom EXCEPT !.modbusRegisterAddress = v]
        /\ UNCHANGED <<op, args, ret, outcome, kept, inflight, page>>

EditModbusRegisterCount ==
    \E v \in UiCountFields :
        /\ dom' = [dom EXCEPT !.modbusRegisterCount = v]
        /\ UNCHANGED <<op, args, ret, outcome, kept, inflight, page>>

\* click on #buildModbusCommandBtn: buildModbusCommand() of the page script
ClickBuildModbusCommand ==
    LET command == UiCommand(dom) IN
        /\ op' = "uiBuildModbusCommand"
        /\ args' = BuildArgs(ParseInt(dom.modbusAddress),
                             ParseInt(dom.modbusFunctionCode),
                             ParseInt(dom.modbusRegisterAddress),
                             ParseInt(dom.modbusRegisterCount),
                             NullValues)
        /\ ret' = [command |-> command]
        /\ outcome' = "returned"
        /\ dom' = [dom EXCEPT !.modbusCommand = DisplayCommand(command),
                              !.hasNote = TRUE,
                              !.note = UiNote(dom)]
        /\ UNCHANGED <<kept, inflight, page>>

NextUI ==
    \/ EditModbusAddress
    \/ EditModbusFunctionCode
    \/ EditModbusRegisterAddress
    \/ EditModbusRegisterCount
    \/ ClickBuildModbusCommand

SpecUI == Init /\ [][NextUI]_vars

----------------------------------------------------------------------------
(* Repeated calls of buildModbusCommand.  A caller puts a result aside,    *)
(* makes other calls, and builds the same frame again.  The calls are      *)
(* synchronous functions on one thread, so each is one step.               *)

\* most calls made after a result was put aside
MaxCallsBetween == 2

\* the registerValues array when the call returns: the function evaluates
\* registerValues.length and registerValues[i] and assigns to neither
RegisterValuesAfter(registerValues) == registerValues

RepeatInputs ==
    {BuildArgs(1, fn, addr, cnt, vals) :
        fn \in {3, 6, 16, 5}, addr \in {0, 40001, 70000}, cnt \in {1, 2},
        vals \in {NullValues, ArrayValues(<<4660>>),
                  ArrayValues(<<4660, 43981>>)}}

RepeatCrcInputs == {<<>>, <<1, 3, 0, 0, 0, 1>>}

\* one more call since the result was put aside
CountCall(k) == IF k.present THEN [k EXCEPT !.since = @ + 1] ELSE k

MayCall == op = "none" /\ (kept.present => kept.since < MaxCallsBetween)

\* buildModbusCommand(...) of modbus.js; args also holds the array passed as
\* registerValues as the caller finds it after the call
CallBuildModbusCommandAgain ==
    \E a \in RepeatInputs :
        /\ MayCall
        /\ op' = "buildModbusCommand"
        /\ args' = [deviceAddress |-> a.deviceAddress,
                    functionCode |-> a.functionCode,
                    registerAddress |-> a.registerAddress,
                    registerCount |-> a.registerCount,
                    registerValues |-> a.registerValues,
                    registerValuesAfter |->
                        RegisterValuesAfter(a.registerValues)]
        /\ ret' = BuildModbusCommand(a.deviceAddress, a.functionCode,
                                     a.registerAddress, a.registerCount,
                                     a.registerValues)
        /\ outcome' = "returned"
        /\ kept' = CountCall(kept)
        /\ UNCHANGED <<dom, inflight, page>>

\* calculateCRC(data) of modbus.js between two builds
CallCalculateCRCBetween ==
    \E data \in RepeatCrcInputs :
        /\ MayCall
        /\ op' = "calculateCRC"
        /\ args' = [copy |-> "modbus.js", data |-> data]
        /\ ret' = CalculateCRC(data)
        /\ outcome' = "returned"
        /\ kept' = CountCall(kept)
        /\ UNCHANGED <<dom, inflight, page>>

\* the caller puts the arguments and the result of its call aside
Keep ==
    /\ op = "buildModbusCommand"
    /\ kept' = [present |-> TRUE, args |-> args, ret |-> ret, since |-> 0]
    /\ op' = "none"
    /\ args' = <<>>
    /\ ret' = <<>>
    /\ outcome' = "none"
    /\ UNCHANGED <<dom, inflight, page>>

NextRepeat ==
    \/ CallBuildModbusCommandAgain
    \/ CallCalculateCRCBetween
    \/ Keep
    \/ Discard

SpecRepeat == Init /\ [][NextRepeat]_vars

----------------------------------------------------------------------------
(* The page script (ui.js): parseAndDisplayResponse.  A response is the    *)
(* array data.response, or absent (null, undefined).  What the function    *)
(* writes into #modbusParsedResponse is held as a record: a text, or the   *)
(* values its template shows.                                              *)

\* the value of an array element that does not exist
Undefined == -1

AbsentResponse == [present |-> FALSE, bytes |-> <<>>]
ArrayResponse(b) == [present |-> TRUE, bytes |-> b]

\* response[k], k counted from 0
Elem(bytes, k) ==
    IF k >= 0 /\ k < Len(bytes) THEN bytes[k + 1] ELSE Undefined

\* the operand of << and | as a 32-bit integer: undefined counts as 0
ToInt32(x) == IF x = Undefined THEN 0 ELSE x

\* a << n
Shl(a, n) == a * (2 ^ n)

\* (mutant) the low byte is taken first
WordLowFirst(bytes, k) ==
    BitOr(Shl(ToInt32(Elem(bytes, k + 1)), 8), ToInt32(Elem(bytes, k)))

\* (response[k] << 8) | response[k + 1]
Word(bytes, k) ==
    BitOr(Shl(ToInt32(Elem(bytes, k)), 8), ToInt32(Elem(bytes, k + 1)))

\* (mutant) only an absent response is refused
IsInvalidResponseAbsentOnly(response) == ~response.present

\* !response || response.length < 3
IsInvalidResponse(response) ==
    ~response.present \/ Len(response.bytes) < 3

\* (mutant) one row for every byte announced
RowCountPerByte(byteCount) ==
    IF byteCount = Undefined THEN 0 ELSE byteCount

\* the number of i = 0, 1, 2, ... with i < byteCount / 2
RowCount(byteCount) ==
    IF byteCount = Undefined THEN 0 ELSE (byteCount + 1) \div 2

\* the rows of the table of a read response
ReadRows(bytes, byteCount, startRegister) ==
    [i \in 1..RowCount(byteCount) |->
        LET value == Word(bytes, 3 + (i - 1) * 2)
        IN  [register |-> startRegister + (i - 1),
             value |-> value,
             hex |-> HexLabel(value, 4)]]

\* (mutant) every function code that is not decoded is a parse error
UnknownFunctionAsError(functionCode) ==
    [kind |-> "text", text |-> "Error parsing response: "]

\* `Unknown or error function code: ${functionCode}`
UnknownFunction(functionCode) ==
    [kind |-> "text", text |-> "Unknown or error function code: ",
     functionCode |-> functionCode]

\* the content of #modbusParsedResponse after parseAndDisplayResponse
ParseAndDisplayResponse(response, fields) ==
    IF IsInvalidResponse(response)
    THEN [kind |-> "text", text |-> "Invalid or empty response"]
    ELSE
        LET bytes == response.bytes
            deviceAddress == Elem(bytes, 0)
            functionCode == Elem(bytes, 1)
        IN  IF functionCode = 3 \/ functionCode = 4
            THEN LET byteCount == Elem(bytes, 2)
                     startRegister == ParseInt(fields.modbusRegisterAddress)
                 IN  [kind |-> "read",
                      deviceAddress |-> deviceAddress,
                      functionCode |-> functionCode,
                      byteCount |-> byteCount,
                      rows |-> ReadRows(bytes, byteCount, startRegister)]
            ELSE IF functionCode = 6
            THEN LET registerValue == Word(bytes, 4)
                 IN  [kind |-> "writeSingle",
                      deviceAddress |-> deviceAddress,
                      functionCode |-> functionCode,
                      registerAddress |-> Word(bytes, 2),
                      registerValue |-> registerValue,
                      hex |-> HexLabel(registerValue, 0)]
            ELSE IF functionCode = 16
            THEN [kind |-> "writeMultiple",
                  deviceAddress |-> deviceAddress,
                  functionCode |-> functionCode,
                  registerAddress |-> Word(bytes, 2),
                  registerCount |-> Word(bytes, 4)]
            ELSE UnknownFunction(functionCode)

\* most data bytes after the byte count of a read response
MaxResponseData == 4
\* most bytes after the function code of a write response
MaxWriteBody == 4

ResponseInputs ==
    {AbsentResponse}
    \cup {ArrayResponse(b) : b \in BoundedSeqs({1, 3}, 2)}
    \cup {ArrayResponse(<<1, 3, bc>> \o data) :
            bc \in {0, 1, 2, 4},
            data \in BoundedSeqs({0, 42}, MaxResponseData)}
    \cup {ArrayResponse(<<17, 4, bc>> \o data) :
            bc \in {2, 4}, data \in {<<>>, <<18, 52>>, <<18, 52, 171, 205>>}}
    \cup {ArrayResponse(<<1, fn>> \o body) :
            fn \in {6, 16}, body \in BoundedSeqs({1, 255}, MaxWriteBody)}
    \cup {ArrayResponse(<<1, fn>> \o body) :
            fn \in {0, 5, 127, 131, 134, 144, 255},
            body \in {<<2>>, <<0>>, <<2, 192, 241>>}}
    \cup {ArrayResponse(b) :
            b \in {<<1, 3, 4, 0, 42, 0, 43>>,
                   <<1, 3, 4, 0, 42, 0, 43>>
                       \o CalculateCRC(<<1, 3, 4, 0, 42, 0, 43>>),
                   <<1, 3, 4, 0, 42>>,
                   <<1, 6, 0, 5, 18, 52>>
                       \o CalculateCRC(<<1, 6, 0, 5, 18, 52>>),
                   <<1, 16, 0, 5, 0, 2>>
                       \o CalculateCRC(<<1, 16, 0, 5, 0, 2>>)}}

\* (mutant) the bytes are taken off the front of the array as they are read
ResponseAfterShift(response) ==
    IF response.present /\ Len(response.bytes) >= 3
    THEN ArrayResponse(SubSeq(response.bytes, 3, Len(response.bytes)))
    ELSE response

\* the array when the call returns: the function evaluates response.length
\* and response[k] and assigns to neither
ResponseAfter(response) == response

\* parseAndDisplayResponse(response) with the page as it is; args also holds
\* the array as the caller finds it after the call
CallParseAndDisplayResponse ==
    \E response \in ResponseInputs :
        /\ op = "none"
        /\ op' = "parseAndDisplayResponse"
        /\ args' = [response |-> response,
                    startRegister |-> ParseInt(dom.modbusRegisterAddress),
                    responseAfter |-> ResponseAfter(response)]
        /\ ret' = <<>>
        /\ outcome' = "returned"
        /\ dom' = [dom EXCEPT !.modbusParsedResponse =
                                  ParseAndDisplayResponse(response, dom)]
        /\ UNCHANGED <<kept, inflight, page>>

NextDecode ==
    \/ EditModbusRegisterAddress
    \/ CallParseAndDisplayResponse
    \/ Discard

SpecDecode == Init /\ [][NextDecode]_vars

----------------------------------------------------------------------------
(* The page script (ui.js): sendModbusCommand.  The click handler builds   *)
(* the frame from the form, starts a fetch and returns; the handlers of    *)
(* the fetch run later, one request at a time, in any order of the         *)
(* requests.  A request in flight is held with its frame, the query string  *)
(* sent, and the register address field as it was at the send.              *)

\* most requests in flight at a time
MaxInFlight == 2

\* byte.toString(16).padStart(2, '0'), joined without separator
HexQuery(command) ==
    Join([k \in 1..Len(command) |->
            PadStart(NumToString(command[k], 16), 2, "0")], <<>>)

\* what the server may answer
ServerResponses ==
    {<<1, 3, 2, 0, 42>>, <<1, 3, 4, 0, 42, 0, 43>>, <<1, 131, 2>>, <<>>}

\* (mutant) the request that was settled is issued again
ReissueAt(s, i) ==
    [k \in 1..Len(s) |->
        IF k < i THEN s[k] ELSE IF k < Len(s) THEN s[k + 1] ELSE s[i]]

\* the requests in flight without the one that was settled
RemoveAt(s, i) == [k \in 1..(Len(s) - 1) |-> IF k < i THEN s[k] ELSE s[k + 1]]

\* click on #sendModbusCommandBtn: sendModbusCommand() up to the fetch
ClickSendModbusCommand ==
    LET command == UiCommand(dom) IN
        /\ Len(inflight) < MaxInFlight
        /\ op' = "sendModbusCommand"
        /\ args' = BuildArgs(ParseInt(dom.modbusAddress),
                             ParseInt(dom.modbusFunctionCode),
                             ParseInt(dom.modbusRegisterAddress),
                             ParseInt(dom.modbusRegisterCount),
                             NullValues)
        /\ ret' = <<>>
        /\ outcome' = "returned"
        /\ dom' = [dom EXCEPT
                     !.modbusCommand = DisplayCommand(command),
                     !.hasNote = TRUE,
                     !.note = UiNote(dom),
                     !.modbusResponse =
                         [kind |-> "text", text |-> "Sending command..."],
                     !.modbusParsedResponse =
                         [kind |-> "text", text |-> "Waiting for response..."]]
        /\ inflight' = Append(inflight,
                          [via |-> "ui.js",
                           command |-> command,
                           hexCommand |-> HexQuery(command),
                           registerAddress |->
                               ParseInt(dom.modbusRegisterAddress)])
        /\ UNCHANGED <<kept, page>>

\* the fetch of a request is fulfilled with a JSON body that has a response
\* array: it is shown in hex and handed to parseAndDisplayResponse
ReceiveResponse ==
    \E i \in 1..Len(inflight), bytes \in ServerResponses :
        /\ inflight[i].via = "ui.js"
        /\ op' = "parseAndDisplayResponse"
        /\ args' = [response |-> ArrayResponse(bytes),
                    startRegister |-> ParseInt(dom.modbusRegisterAddress),
                    request |-> inflight[i]]
        /\ ret' = <<>>
        /\ outcome' = "returned"
        /\ dom' = [dom EXCEPT
                     !.modbusResponse =
                         [kind |-> "hex", text |-> HexCommand(bytes)],
                     !.modbusParsedResponse =
                         ParseAndDisplayResponse(ArrayResponse(bytes), dom)]
        /\ inflight' = RemoveAt(inflight, i)
        /\ UNCHANGED <<kept, page>>

\* the fetch fails, the status is not ok, or the body has no response array:
\* the catch handler shows the error
ReceiveFailure ==
    \E i \in 1..Len(inflight) :
        /\ inflight[i].via = "ui.js"
        /\ op' = "sendModbusCommandFailed"
        /\ args' = [request |-> inflight[i]]
        /\ ret' = <<>>
        /\ outcome' = "Error"
        /\ dom' = [dom EXCEPT
                     !.modbusResponse = [kind |-> "text", text |-> "Error: "],
                     !.modbusParsedResponse =
                         [kind |-> "text", text |-> "Failed to get response"]]
        /\ inflight' = RemoveAt(inflight, i)
        /\ UNCHANGED <<kept, page>>

\* frames handed to sendModbusCommand of api.js
ApiCommands == {<<1, 3, 0, 0, 0, 1, 132, 10>>}

\* sendModbusCommand(commandBytes) of api.js up to its await of the fetch
ApiSendModbusCommand ==
    \E commandBytes \in ApiCommands :
        /\ Len(inflight) < MaxInFlight
        /\ op' = "apiSendModbusCommand"
        /\ args' = [commandBytes |-> commandBytes]
        /\ ret' = <<>>
        /\ outcome' = "pending"
        /\ inflight' = Append(inflight,
                          [via |-> "api.js",
                           command |-> commandBytes,
                           hexCommand |-> HexQuery(commandBytes)])
        /\ UNCHANGED <<dom, kept, page>>

\* the fetch is fulfilled with status ok: the promise of sendModbusCommand
\* of api.js resolves to the JSON body
ApiResolve ==
    \E i \in 1..Len(inflight), bytes \in ServerResponses :
        /\ inflight[i].via = "api.js"
        /\ op' = "apiSendModbusCommandResolved"
        /\ args' = [request |-> inflight[i]]
        /\ ret' = [response |-> bytes]
        /\ outcome' = "returned"
        /\ inflight' = RemoveAt(inflight, i)
        /\ UNCHANGED <<dom, kept, page>>

\* the fetch fails or the status is not ok: the error is logged and thrown
\* to the caller
ApiReject ==
    \E i \in 1..Len(inflight) :
        /\ inflight[i].via = "api.js"
        /\ op' = "apiSendModbusCommandRejected"
        /\ args' = [request |-> inflight[i]]
        /\ ret' = <<>>
        /\ outcome' = "Error"
        /\ inflight' = RemoveAt(inflight, i)
        /\ UNCHANGED <<dom, kept, page>>

NextSend ==
    \/ EditModbusRegisterAddress
    \/ ClickSendModbusCommand
    \/ ReceiveResponse
    \/ ReceiveFailure
    \/ ApiSendModbusCommand
    \/ ApiResolve
    \/ ApiReject

SpecSend == Init /\ [][NextSend]_vars

----------------------------------------------------------------------------
(* The dashboard script (part_001).  The DOMContentLoaded handler awaits    *)
(* loadConfiguration, then sets up the listeners, fetches the power data    *)
(* and starts the 5-second timer.  fetchPowerData runs up to its fetch in   *)
(* the step that starts it and resumes when the fetch settles.  Every       *)
(* request for power data carries the number of its start, and so do the    *)
(* status and the data shown, to tell which refresh wrote them.             *)

\* most refreshes started on a page
MaxRefreshes == 3

\* what /api/config may hold
ConfigBodies ==
    {[has |-> TRUE, API_BASE_URL |-> "http://meter.local:8080/api"],
     [has |-> TRUE, API_BASE_URL |-> ""],
     [has |-> FALSE, API_BASE_URL |-> ""]}

\* (mutant) the field of the configuration is taken as it is
ConfiguredBaseUnchecked(config, current) == config.API_BASE_URL

\* config.API_BASE_URL || API_BASE_URL
ConfiguredBase(config, current) ==
    IF config.has /\ config.API_BASE_URL # ""
    THEN config.API_BASE_URL
    ELSE current

\* fetchPowerData() up to its await: the status, and the request it sends
StartPowerFetch(p) ==
    [p EXCEPT !.started = @ + 1,
              !.connectionStatus =
                  [text |-> "Conectando...", seq |-> p.started + 1]]

PowerRequest(p) ==
    [via |-> "part_001", url |-> p.API_BASE_URL, path |-> "/power",
     seq |-> p.started + 1]

\* the handler of DOMContentLoaded up to its await: fetch('/api/config')
DomContentLoaded ==
    /\ page.phase = "init"
    /\ page' = [page EXCEPT !.phase = "config"]
    /\ inflight' = Append(inflight,
                      [via |-> "part_001", url |-> "", path |-> "/api/config",
                       seq |-> 0])
    /\ op' = "loadConfiguration"
    /\ args' = <<>>
    /\ ret' = <<>>
    /\ outcome' = "pending"
    /\ UNCHANGED <<dom, kept>>

\* the rest of the DOMContentLoaded handler on page p: listeners, the first
\* fetchPowerData, setInterval
AfterConfiguration(p) ==
    StartPowerFetch([p EXCEPT !.phase = "ready", !.timer = TRUE])

\* /api/config answers with status ok and a JSON body
ConfigLoaded ==
    \E i \in 1..Len(inflight), body \in ConfigBodies :
        /\ inflight[i].path = "/api/config"
        /\ LET loaded == [page EXCEPT
                            !.API_BASE_URL = ConfiguredBase(body, @),
                            !.config = [kind |-> "ok", body |-> body]]
           IN  /\ page' = AfterConfiguration(loaded)
               /\ inflight' = Append(RemoveAt(inflight, i),
                                     PowerRequest(loaded))
        /\ op' = "loadConfiguration"
        /\ args' = <<>>
        /\ ret' = <<>>
        /\ outcome' = "returned"
        /\ UNCHANGED <<dom, kept>>

\* the fetch of /api/config fails, or its status is not ok
ConfigFailed ==
    \E i \in 1..Len(inflight), kind \in {"failed", "notOk"} :
        /\ inflight[i].path = "/api/config"
        /\ LET loaded == [page EXCEPT !.config = [kind |-> kind]]
           IN  /\ page' = AfterConfiguration(loaded)
               /\ inflight' = Append(RemoveAt(inflight, i),
                                     PowerRequest(loaded))
        /\ op' = "loadConfiguration"
        /\ args' = <<>>
        /\ ret' = <<>>
        /\ outcome' = "returned"
        /\ UNCHANGED <<dom, kept>>

\* the interval timer fires, or #refreshBtn is clicked: fetchPowerData()
RefreshPowerData ==
    \E trigger \in {"setInterval", "refreshBtn"} :
        /\ IF trigger = "setInterval" THEN page.timer
                                      ELSE page.phase = "ready"
        /\ page.started < MaxRefreshes
        /\ page' = StartPowerFetch(page)
        /\ inflight' = Append(inflight, PowerRequest(page))
        /\ op' = "fetchPowerData"
        /\ args' = [trigger |-> trigger]
        /\ ret' = <<>>
        /\ outcome' = "pending"
        /\ UNCHANGED <<dom, kept>>

\* a fetch of the power data is fulfilled with status ok: fetchPowerData
\* resumes, stores and shows the data and sets the status
PowerDataArrives ==
    \E i \in 1..Len(inflight) :
        /\ inflight[i].path = "/power"
        /\ page' = [page EXCEPT
                      !.powerData = [seq |-> inflight[i].seq],
                      !.connectionStatus =
                          [text |-> "Conectado", seq |-> inflight[i].seq],
                      !.newestData = IF inflight[i].seq > @
                                     THEN inflight[i].seq ELSE @]
        /\ inflight' = RemoveAt(inflight, i)
        /\ op' = "fetchPowerData"
        /\ args' = [request |-> inflight[i]]
        /\ ret' = <<>>
        /\ outcome' = "returned"
        /\ UNCHANGED <<dom, kept>>

\* a fetch of the power data fails or its status is not ok: the catch block
PowerDataFails ==
    \E i \in 1..Len(inflight) :
        /\ inflight[i].path = "/power"
        /\ page' = [page EXCEPT
                      !.connectionStatus =
                          [text |-> "Error de conexion",
                           seq |-> inflight[i].seq]]
        /\ inflight' = RemoveAt(inflight, i)
        /\ op' = "fetchPowerData"
        /\ args' = [request |-> inflight[i]]
        /\ ret' = <<>>
        /\ outcome' = "Error"
        /\ UNCHANGED <<dom, kept>>

NextDashboard ==
    \/ DomContentLoaded
    \/ ConfigLoaded
    \/ ConfigFailed
    \/ RefreshPowerData
    \/ PowerDataArrives
    \/ PowerDataFails

SpecDashboard == Init /\ [][NextDashboard]_vars

----------------------------------------------------------------------------
(* The tabs of the page (setupTabs).  page.tabs holds, for every .tab      *)
(* element named by its data-tab attribute, whether it has the class       *)
(* 'active'; page.panels holds the same for every .tab-content element,    *)
(* named by its id.                                                        *)

\* (mutant) the classes are left as they are
RemoveActiveNothing(classes) == classes

\* forEach(x => x.classList.remove('active'))
RemoveActive(classes) == [x \in DOMAIN classes |-> FALSE]

\* document.getElementById(id).classList.add('active'); the call throws,
\* and adds nothing, when no element has the id
AddActive(classes, id) ==
    IF id \in DOMAIN classes THEN [classes EXCEPT ![id] = TRUE] ELSE classes

\* a click on a tab
ClickTab ==
    \E tab \in DOMAIN page.tabs :
        /\ page' = [page EXCEPT
                      !.tabs = AddActive(RemoveActive(@), tab),
                      !.panels = AddActive(RemoveActive(@), tab)]
        /\ op' = "clickTab"
        /\ args' = [tab |-> tab]
        /\ ret' = <<>>
        /\ outcome' = "returned"
        /\ UNCHANGED <<dom, kept, inflight>>

NextTabs ==
    \/ ClickTab
    \/ EditModbusAddress
    \/ EditModbusFunctionCode
    \/ EditModbusRegisterAddress
    \/ EditModbusRegisterCount

SpecTabs == Init /\ [][NextTabs]_vars

----------------------------------------------------------------------------
(* Reference CRC-16/MODBUS on 16-bit naturals; exclusive or is taken bit   *)
(* by bit.                                                                 *)

BitOf(n, k) == (n \div (2 ^ k)) % 2

RefXor[a \in Nat, b \in Nat] ==
    LET bit(k) == ((BitOf(a, k) + BitOf(b, k)) % 2) * (2 ^ k)
    IN  bit(0) + bit(1) + bit(2) + bit(3) + bit(4) + bit(5) + bit(6) + bit(7)
        + bit(8) + bit(9) + bit(10) + bit(11) + bit(12) + bit(13) + bit(14)
        + bit(15)

\* shift right by one; exclusive or with 0xA001 when the bit shifted out was 1
RefRound[reg \in Nat] ==
    IF reg % 2 = 1 THEN RefXor[reg \div 2, 40961] ELSE reg \div 2

RefByte(reg, b) ==
    RefRound[RefRound[RefRound[RefRound[
    RefRound[RefRound[RefRound[RefRound[RefXor[reg, b]]]]]]]]]

RefRegister(data) ==
    LET after[i \in 0..Len(data)] ==
            IF i = 0 THEN 65535 ELSE RefByte(after[i - 1], data[i])
    IN  after[Len(data)]

RefCRC(data) ==
    LET reg == RefRegister(data) IN <<reg % 256, reg \div 256>>

IsByteSeq(data) == \A k \in 1..Len(data) : data[k] \in 0..255

----------------------------------------------------------------------------
(* Properties.                                                             *)

\* C1: for every sequence of bytes, calculateCRC (either copy) returns
\* exactly two values [lo, hi], both in 0..255, the low and the high byte of
\* the reference Modbus CRC-16; for the empty sequence it returns [0xFF, 0xFF].
C1_CrcIsReference ==
    (op = "calculateCRC" /\ IsByteSeq(args.data)) =>
        /\ Len(ret) = 2
        /\ ret[1] \in 0..255
        /\ ret[2] \in 0..255
        /\ ret = RefCRC(args.data)
        /\ (args.data = <<>> => ret = <<255, 255>>)

C1_Witness ==
    /\ op = "calculateCRC"
    /\ args.copy = "ui.js"
    /\ Len(args.data) = 3
    /\ ret = RefCRC(args.data)

\* C2 as stated: calculateCRC([0x01, 0x03, 0x00, 0x00, 0x00, 0x01]) returns
\* [0x0A, 0x84].
C2_AsStated ==
    (op = "calculateCRC" /\ args.data = <<1, 3, 0, 0, 0, 1>>) => ret = <<10, 132>>

\* C2 amended: calculateCRC([0x01, 0x03, 0x00, 0x00, 0x00, 0x01]) returns
\* [0x84, 0x0A]: the CRC is 0x0A84, and its low byte 0x84 comes first.
C2_TestVector ==
    (op = "calculateCRC" /\ args.data = <<1, 3, 0, 0, 0, 1>>) => ret = <<132, 10>>

C2_Witness ==
    /\ op = "calculateCRC"
    /\ args.copy = "modbus.js"
    /\ args.data = <<1, 3, 0, 0, 0, 1>>
    /\ ret[1] = 132

\* The wire address of a register address, and the bytes of a 16-bit field,
\* written with plain arithmetic.
WireOf(a) == IF a >= 40001 THEN a - 40001 ELSE a
HighOf(x) == (x \div 256) % 256
LowOf(x) == x % 256
Supported == {3, 4, 6, 16}
Built == op = "buildModbusCommand"

\* C3: the frame returned by buildModbusCommand is [deviceAddress,
\* functionCode, addrHi, addrLo, payload..., crcLo, crcHi] (payload: 2 bytes
\* for functions 3, 4 and 6; 3 + 2 * registerCount bytes for function 16),
\* and its last two bytes are calculateCRC of all the bytes before them, low
\* byte first.
C3_FrameLayout ==
    (Built /\ args.functionCode \in Supported) =>
        LET c == ret.command
            n == Len(c)
            cnt == IF args.registerCount > 0 THEN args.registerCount ELSE 0
        IN  /\ n = IF args.functionCode = 16 THEN 9 + 2 * cnt ELSE 8
            /\ c[1] = args.deviceAddress
            /\ c[2] = args.functionCode
            /\ c[3] = HighOf(WireOf(args.registerAddress))
            /\ c[4] = LowOf(WireOf(args.registerAddress))
            /\ <<c[n - 1], c[n]>> = CalculateCRC(SubSeq(c, 1, n - 2))
            /\ (IsByteSeq(SubSeq(c, 1, n - 2)) /\ n <= 13 =>
                    <<c[n - 1], c[n]>> = RefCRC(SubSeq(c, 1, n - 2)))

C3_Witness ==
    /\ Built
    /\ args.functionCode = 16
    /\ args.registerCount = 2
    /\ args.deviceAddress = 247
    /\ Len(ret.command) = 13
    /\ <<ret.command[12], ret.command[13]>> = RefCRC(SubSeq(ret.command, 1, 11))

\* C4: the address in frame bytes 2..3 is registerAddress - 40001 for every
\* registerAddress >= 40001 and registerAddress itself below 40001 (as a
\* 16-bit value, high byte first); build(1, 3, 40001, 1) and
\* build(1, 3, 0, 1) return the same frame bytes.
C4_WireAddress ==
    Built =>
        LET c == ret.command
            a == args.registerAddress
            w == IF a >= 40001 THEN a - 40001 ELSE a
        IN  /\ c[3] \in 0..255
            /\ c[4] \in 0..255
            /\ 256 * c[3] + c[4] = w % 65536
            /\ (w \in 0..65535 => 256 * c[3] + c[4] = w)
            /\ (/\ args.deviceAddress = 1
                /\ args.functionCode = 3
                /\ a \in {0, 40001}
                /\ args.registerCount = 1)
               => c = <<1, 3, 0, 0, 0, 1, 132, 10>>

C4_Witness ==
    /\ Built
    /\ args.deviceAddress = 1
    /\ args.functionCode = 3
    /\ args.registerAddress = 40001
    /\ args.registerCount = 1
    /\ ret.command = <<1, 3, 0, 0, 0, 1, 132, 10>>

\* C5: the translation is applied once: for an input address a >= 40001 the
\* reported modbusAddress is a - 40001 even when that is itself >= 40001,
\* the reported originalAddress is a, and the address in frame bytes 2..3 is
\* modbusAddress modulo 65536.
C5_TranslatedOnce ==
    (Built /\ args.registerAddress >= 40001) =>
        /\ ret.modbusAddress = args.registerAddress - 40001
        /\ ret.originalAddress = args.registerAddress
        /\ 256 * ret.command[3] + ret.command[4] = ret.modbusAddress % 65536

C5_Witness ==
    /\ Built
    /\ args.registerAddress = 80002
    /\ ret.modbusAddress = 40001
    /\ ret.command[3] = 156
    /\ ret.command[4] = 65

\* C6 as stated: buildModbusCommand with a function code other than 3, 4, 6
\* and 16 fails with UnsupportedFunctionCode and returns no frame.
C6_UnsupportedFunctionRejected ==
    (Built /\ args.functionCode \notin Supported) =>
        /\ outcome = "UnsupportedFunctionCode"
        /\ ret = <<>>

\* C7: for function 3 or 4 the frame has exactly 8 bytes, bytes 4..5 are
\* registerCount as a big-endian 16-bit value, and registerValues has no
\* effect: the frame is the one determined by the other four arguments.
C7_ReadPayload ==
    (Built /\ args.functionCode \in {3, 4}) =>
        LET c == ret.command
            w == WireOf(args.registerAddress)
            body == <<args.deviceAddress, args.functionCode, HighOf(w), LowOf(w),
                      HighOf(args.registerCount), LowOf(args.registerCount)>>
        IN  /\ Len(c) = 8
            /\ 256 * c[5] + c[6] = args.registerCount % 65536
            /\ c = body \o CalculateCRC(body)

C7_Witness ==
    /\ Built
    /\ args.functionCode = 4
    /\ args.registerCount = 300
    /\ args.registerValues.present
    /\ Len(args.registerValues.vals) = 2
    /\ ret.command[5] = 1
    /\ ret.command[6] = 44

\* C8 as stated, for every builder of the repository: for function 6,
\* bytes 4..5 of the built frame are registerValues[0], big-endian, when
\* registerValues is present and non-empty, and 0x00 0x00 otherwise;
\* registerCount does not influence the frame.
C8_WriteSinglePayload ==
    (op \in {"buildModbusCommand", "uiBuildModbusCommand"}
     /\ args.functionCode = 6) =>
        LET c == ret.command
            v == IF args.registerValues.present
                    /\ Len(args.registerValues.vals) > 0
                 THEN args.registerValues.vals[1] ELSE 0
            w == IF op = "buildModbusCommand"
                 THEN WireOf(args.registerAddress)
                 ELSE 256 * c[3] + c[4]
            body == <<args.deviceAddress, args.functionCode, HighOf(w), LowOf(w),
                      HighOf(v), LowOf(v)>>
        IN  /\ Len(c) = 8
            /\ c[5] = HighOf(v)
            /\ c[6] = LowOf(v)
            /\ c = body \o CalculateCRC(body)

\* C9: for function 16 and every registerCount in 1..123, byte 6 of the frame
\* is registerCount * 2 and the frame has 9 + 2 * registerCount bytes,
\* whatever the length of registerValues.
C9_WriteMultipleLength ==
    (Built /\ args.functionCode = 16 /\ args.registerCount \in 1..MaxWriteCount) =>
        /\ ret.command[7] = args.registerCount * 2
        /\ Len(ret.command) = 9 + 2 * args.registerCount
        /\ 256 * ret.command[5] + ret.command[6] = args.registerCount

C9_Witness ==
    /\ Built
    /\ args.functionCode = 16
    /\ args.registerCount = 123
    /\ Len(args.registerValues.vals) = 1
    /\ ret.command[7] = 246
    /\ Len(ret.command) = 255

\* C10: for function 16 the i-th value in the frame (bytes 7 + 2i and
\* 8 + 2i, big-endian) is registerValues[i] (as a 16-bit value) for every
\* i < registerCount below the length of registerValues and 0 for every other
\* i < registerCount; with registerValues null or empty all values are 0, and
\* entries at index >= registerCount are not in the frame.
C10_WriteMultipleValues ==
    (Built /\ args.functionCode = 16) =>
        LET c == ret.command
            vals == args.registerValues.vals
            given == args.registerValues.present /\ Len(vals) > 0
        IN  /\ Len(c) = 9 + 2 * (IF args.registerCount > 0
                                 THEN args.registerCount ELSE 0)
            /\ \A i \in 0..(args.registerCount - 1) :
                /\ c[8 + 2 * i] \in 0..255
                /\ c[9 + 2 * i] \in 0..255
                /\ 256 * c[8 + 2 * i] + c[9 + 2 * i] =
                     IF given /\ i < Len(vals) THEN vals[i + 1] % 65536 ELSE 0
                /\ (given /\ i < Len(vals) /\ vals[i + 1] \in 0..65535) =>
                     256 * c[8 + 2 * i] + c[9 + 2 * i] = vals[i + 1]

C10_Witness ==
    /\ Built
    /\ args.functionCode = 16
    /\ args.registerCount = 3
    /\ args.registerValues.vals = <<4661>>
    /\ SubSeq(ret.command, 8, 13) = <<18, 53, 0, 0, 0, 0>>

\* C8 for buildModbusCommand of modbus.js alone.
C8_StandaloneWriteSingle == Built => C8_WriteSinglePayload

C8_StandaloneWitness ==
    /\ Built
    /\ args.functionCode = 6
    /\ args.registerCount = 300
    /\ args.registerValues.vals = <<43981, 4660>>
    /\ ret.command[5] = 171
    /\ ret.command[6] = 205

----------------------------------------------------------------------------
\* C11: buildModbusCommand returns normally for every integer input and
\* every element of the frame it returns is an integer in 0..255 (values
\* out of range are truncated to a byte).
C11_FrameIsBytes ==
    Built =>
        /\ outcome = "returned"
        /\ \A k \in 1..Len(ret.command) : ret.command[k] \in 0..255

\* C12: the frame for device 1, function 3, register address 70000, count 1
\* is built without failure and carries 0x75, 0x2F (29999) in bytes 2 and 3,
\* by buildModbusCommand of modbus.js and by the one of the page script.
C12_TruncatedAddress ==
    (/\ op \in {"buildModbusCommand", "uiBuildModbusCommand"}
     /\ args.deviceAddress = 1 /\ args.functionCode = 3
     /\ args.registerAddress = 70000 /\ args.registerCount = 1) =>
        /\ outcome = "returned"
        /\ ret.command[3] = 117
        /\ ret.command[4] = 47

\* the same for buildModbusCommand of modbus.js alone
C12_StandaloneTruncated == Built => C12_TruncatedAddress

C12_StandaloneWitness ==
    /\ Built
    /\ args.deviceAddress = 1 /\ args.functionCode = 3
    /\ args.registerAddress = 70000 /\ args.registerCount = 1
    /\ ret.command[3] = 117 /\ ret.command[4] = 47

SameArguments(a, b) ==
    \A f \in {"deviceAddress", "functionCode", "registerAddress",
              "registerCount", "registerValues"} : a[f] = b[f]

Parsed == op = "parseAndDisplayResponse"
Shown == dom.modbusParsedResponse
InvalidShown == [kind |-> "text", text |-> "Invalid or empty response"]

\* C14: for a response that is absent or shorter than 3 bytes the decoder
\* shows the malformed-response outcome ("Invalid or empty response") and
\* nothing decoded from the response: no device, function, register or value.
C14_ShortResponseInvalid ==
    (Parsed /\ (~args.response.present \/ Len(args.response.bytes) < 3)) =>
        Shown = InvalidShown

C14_Witness ==
    /\ Parsed
    /\ args.response = ArrayResponse(<<1, 3>>)
    /\ Shown = InvalidShown

\* a response of 3 or more bytes whose length does not fit its fields
Inconsistent(bytes) ==
    /\ Len(bytes) >= 3
    /\ \/ /\ bytes[2] \in {3, 4}
          /\ (Len(bytes) < 3 + bytes[3] \/ bytes[3] % 2 = 1)
       \/ /\ bytes[2] \in {6, 16}
          /\ Len(bytes) < 6

\* C15: for a response of 3 or more bytes whose length does not fit its
\* fields (function 3 or 4 with fewer than 3 + byteCount bytes or an odd
\* byteCount, function 6 or 16 with fewer than 6 bytes) the decoder shows
\* the malformed-response outcome, so no value built from a byte beyond the
\* end of the response is shown.
C15_InconsistentLengthInvalid ==
    (Parsed /\ args.response.present /\ Inconsistent(args.response.bytes)) =>
        Shown = InvalidShown

\* C16: for a response whose function-code byte has bit 0x80 set the decoder
\* shows a device exception that carries the byte after the function code
\* as the exception code; for 01 83 02 the code shown is 2.
C16_DeviceException ==
    (/\ Parsed /\ args.response.present
     /\ Len(args.response.bytes) >= 3
     /\ args.response.bytes[2] \in 128..255) =>
        /\ Shown.kind = "exception"
        /\ Shown.exceptionCode = args.response.bytes[3]

\* a read response with an even byte count and all the bytes it announces
WellFormedRead(bytes) ==
    /\ Len(bytes) >= 3
    /\ bytes[2] \in {3, 4}
    /\ bytes[3] % 2 = 0
    /\ Len(bytes) >= 3 + bytes[3]

\* C17: for a well-formed function 3 or 4 response the decoder shows exactly
\* byteCount / 2 rows in order, row i (from 0) with register number start + i
\* and value 256 * response[3 + 2i] + response[4 + 2i], start being the
\* start register address the decoder is given; 01 03 04 00 2A 00 2B with
\* start 0 gives (0, 42), (1, 43).
C17_ReadRegisters ==
    (Parsed /\ args.response.present /\ WellFormedRead(args.response.bytes)) =>
        LET b == args.response.bytes IN
        /\ Shown.kind = "read"
        /\ Len(Shown.rows) = b[3] \div 2
        /\ \A i \in 0..(b[3] \div 2 - 1) :
              /\ Shown.rows[i + 1].register = args.startRegister + i
              /\ Shown.rows[i + 1].value = 256 * b[4 + 2 * i] + b[5 + 2 * i]
        /\ (b = <<1, 3, 4, 0, 42, 0, 43>> /\ args.startRegister = 0) =>
              /\ Shown.rows[1].register = 0 /\ Shown.rows[1].value = 42
              /\ Shown.rows[2].register = 1 /\ Shown.rows[2].value = 43

C17_Witness ==
    /\ Parsed
    /\ args.response = ArrayResponse(<<1, 3, 4, 0, 42, 0, 43>>)
    /\ args.startRegister = 0
    /\ Len(Shown.rows) = 2
    /\ Shown.rows[2].value = 43

\* C18: for a response of at least 6 bytes with function code 6 or 16 the
\* decoder shows the pair (256 * response[2] + response[3],
\* 256 * response[4] + response[5]): register address and value for
\* function 6, start address and register count for function 16; the pair
\* depends on no other byte of the response.
C18_WriteConfirmation ==
    (/\ Parsed /\ args.response.present
     /\ Len(args.response.bytes) >= 6
     /\ args.response.bytes[2] \in {6, 16}) =>
        LET b == args.response.bytes
            first == 256 * b[3] + b[4]
            second == 256 * b[5] + b[6]
        IN  IF b[2] = 6
            THEN /\ Shown.kind = "writeSingle"
                 /\ Shown.registerAddress = first
                 /\ Shown.registerValue = second
            ELSE /\ Shown.kind = "writeMultiple"
                 /\ Shown.registerAddress = first
                 /\ Shown.registerCount = second

C18_Witness ==
    /\ Parsed
    /\ args.response.present
    /\ Len(args.response.bytes) = 8
    /\ args.response.bytes[2] = 6
    /\ Shown.kind = "writeSingle"
    /\ Shown.registerAddress = 5
    /\ Shown.registerValue = 4660

\* C19: for a response of 3 or more bytes whose function code is none of 3,
\* 4, 6, 16 and has bit 0x80 clear the decoder shows the unknown-function
\* outcome with the function code as received: not the parse-error text,
\* and no register, address or value.
C19_UnknownFunction ==
    (/\ Parsed /\ args.response.present
     /\ Len(args.response.bytes) >= 3
     /\ args.response.bytes[2] \in (0..127) \ {3, 4, 6, 16}) =>
        Shown = [kind |-> "text", text |-> "Unknown or error function code: ",
                 functionCode |-> args.response.bytes[2]]

C19_Witness ==
    /\ Parsed
    /\ args.response = ArrayResponse(<<1, 5, 2, 192, 241>>)
    /\ Shown.kind = "text"
    /\ Shown.functionCode = 5

\* C20: in the table shown for a read response, row i (from 0) has register
\* number start + i, start being the register address of the request that
\* the response answers, also when the register address field was edited or
\* another request was sent while the request was in flight.
C20_RegistersOfRequest ==
    (Parsed /\ "request" \in DOMAIN args /\ Shown.kind = "read") =>
        \A i \in 1..Len(Shown.rows) :
            Shown.rows[i].register = args.request.registerAddress + (i - 1)

\* the same holds when the field still has the value it had at the send
C20_UneditedField ==
    (/\ Parsed /\ "request" \in DOMAIN args /\ Shown.kind = "read"
     /\ args.startRegister = args.request.registerAddress) =>
        \A i \in 1..Len(Shown.rows) :
            Shown.rows[i].register = args.request.registerAddress + (i - 1)

C20_UneditedWitness ==
    /\ Parsed /\ "request" \in DOMAIN args /\ Shown.kind = "read"
    /\ args.request.registerAddress = 40001
    /\ Len(Shown.rows) = 2
    /\ Shown.rows[2].register = 40002

----------------------------------------------------------------------------
IsUpperHex(c) ==
    c \in {"0", "1", "2", "3", "4", "5", "6", "7", "8", "9",
           "A", "B", "C", "D", "E", "F"}

\* '0x' followed by exactly n uppercase hex digits
IsHexLabel(s, n) ==
    /\ Len(s) = n + 2
    /\ s[1] = "0" /\ s[2] = "x"
    /\ \A k \in 3..(n + 2) : IsUpperHex(s[k])

HexMetadataAgrees(r) ==
    /\ IsHexLabel(r.hexAddress, 4)
    /\ IsHexLabel(r.highByte, 2)
    /\ IsHexLabel(r.lowByte, 2)
    /\ SubSeq(r.hexAddress, 3, 4) = SubSeq(r.highByte, 3, 4)
    /\ SubSeq(r.hexAddress, 5, 6) = SubSeq(r.lowByte, 3, 4)
    /\ r.highByte = HexLabel(r.command[3], 2)
    /\ r.lowByte = HexLabel(r.command[4], 2)

\* C21: for every frame built, for any integer register address, hexAddress
\* is '0x' and exactly 4 uppercase hex digits, highByte and lowByte are '0x'
\* and exactly 2 uppercase hex digits, the digits of hexAddress are those of
\* highByte followed by those of lowByte, and they are the address in frame
\* bytes 2..3.
C21_HexMetadata == Built => HexMetadataAgrees(ret)

\* the same for the addresses whose wire address is in 0..65535
C21_HexMetadataInRange ==
    (Built /\ ret.modbusAddress \in 0..65535) => HexMetadataAgrees(ret)

C21_InRangeWitness ==
    /\ Built
    /\ args.registerAddress = 70000
    /\ ret.hexAddress = <<"0", "x", "7", "5", "2", "F">>
    /\ ret.highByte = <<"0", "x", "7", "5">>
    /\ ret.lowByte = <<"0", "x", "2", "F">>

RemoveSpaces(s) == SelectSeq(s, LAMBDA c : c # " ")

UpperHexValue(c) ==
    CASE c = "A" -> 10 [] c = "B" -> 11 [] c = "C" -> 12 [] c = "D" -> 13
      [] c = "E" -> 14 [] c = "F" -> 15 [] OTHER -> DigitValue(c)

\* the bytes written as pairs of uppercase hex digits in s
PairsOf(s) ==
    [k \in 1..(Len(s) \div 2) |->
        16 * UpperHexValue(s[2 * k - 1]) + UpperHexValue(s[2 * k])]

Sent == op = "sendModbusCommand"
LastRequest == inflight[Len(inflight)]

\* C22: the hex string sent to the transport and the hex string displayed
\* are the same frame with two uppercase hex digits per byte: the display
\* without its spaces is the transport string, the transport string has
\* 2 * (frame length) characters, and its digit pairs are the frame bytes.
C22_HexForms ==
    Sent =>
        /\ RemoveSpaces(dom.modbusCommand) = LastRequest.hexCommand
        /\ Len(LastRequest.hexCommand) = 2 * Len(LastRequest.command)
        /\ \A k \in 1..Len(LastRequest.hexCommand) :
              IsUpperHex(LastRequest.hexCommand[k])
        /\ PairsOf(LastRequest.hexCommand) = LastRequest.command

\* the two forms agree when the case of the letters is not regarded
C22_HexFormsUpToCase ==
    Sent =>
        /\ RemoveSpaces(dom.modbusCommand)
               = ToUpperCase(LastRequest.hexCommand)
        /\ Len(LastRequest.hexCommand) = 2 * Len(LastRequest.command)
        /\ PairsOf(ToUpperCase(LastRequest.hexCommand)) = LastRequest.command

C22_UpToCaseWitness ==
    /\ Sent
    /\ LastRequest.command = <<1, 3, 0, 0, 0, 1, 132, 10>>
    /\ LastRequest.hexCommand =
           <<"0", "1", "0", "3", "0", "0", "0", "0", "0", "0", "0", "1",
             "8", "4", "0", "a">>
    /\ RemoveSpaces(dom.modbusCommand) = ToUpperCase(LastRequest.hexCommand)

UiBuilt == op = "uiBuildModbusCommand"

\* C23: the frame the page builds from the device address, function code,
\* register address and count of the form is byte for byte the frame that
\* buildModbusCommand of modbus.js returns for these four values.
C23_OneBuilder ==
    UiBuilt =>
        ret.command = BuildModbusCommand(args.deviceAddress, args.functionCode,
                                         args.registerAddress,
                                         args.registerCount,
                                         NullValues).command

\* the two builders agree on reads and multiple-register writes of
\* addresses below 50000
C23_OneBuilderReads ==
    (UiBuilt /\ args.functionCode # 6 /\ args.registerAddress < 50000) =>
        ret.command = BuildModbusCommand(args.deviceAddress, args.functionCode,
                                         args.registerAddress,
                                         args.registerCount,
                                         NullValues).command

C23_ReadsWitness ==
    /\ UiBuilt
    /\ args.functionCode = 16
    /\ args.registerAddress = 40001
    /\ args.registerCount = 5
    /\ Len(ret.command) = 19

CallChanges == <<op, args, inflight>>' # <<op, args, inflight>>

\* C24: a send issues exactly one transport request, and a request that
\* fails (network error or a status that is not ok) is reported as an error
\* to the display or to the caller and is not issued again: the step of a
\* send adds one request, the step of a failure takes one away and leaves
\* the error outcome, and no other step adds a request.
C24_NoRetry ==
    [][/\ (Len(inflight') > Len(inflight)) =>
            /\ op' \in {"sendModbusCommand", "apiSendModbusCommand"}
            /\ Len(inflight') = Len(inflight) + 1
       /\ (op' \in {"sendModbusCommand", "apiSendModbusCommand"}
             /\ CallChanges) =>
            Len(inflight') = Len(inflight) + 1
       /\ (op' \in {"sendModbusCommandFailed", "apiSendModbusCommandRejected"}
             /\ CallChanges) =>
            /\ Len(inflight') = Len(inflight) - 1
            /\ outcome' = "Error"
            /\ (op' = "sendModbusCommandFailed") =>
                   dom'.modbusParsedResponse =
                       [kind |-> "text", text |-> "Failed to get response"]
      ]_vars

C24_Witness ==
    /\ op = "sendModbusCommandFailed"
    /\ outcome = "Error"
    /\ inflight = <<>>
    /\ dom.modbusParsedResponse =
           [kind |-> "text", text |-> "Failed to get response"]

HasValidCRC(bytes) ==
    /\ Len(bytes) >= 2
    /\ <<bytes[Len(bytes) - 1], bytes[Len(bytes)]>>
           = CalculateCRC(SubSeq(bytes, 1, Len(bytes) - 2))

\* C26: a response whose last two bytes are not calculateCRC of the bytes
\* before them is never decoded into a read table or a write confirmation.
C26_CrcValidated ==
    (Parsed /\ args.response.present /\ ~HasValidCRC(args.response.bytes)) =>
        Shown.kind \notin {"read", "writeSingle", "writeMultiple"}

\* C27: for every frame buildModbusCommand returns whose elements are all in
\* 0..255, calculateCRC of the whole frame, its two CRC bytes included, is
\* [0x00, 0x00].
C27_CrcResidue ==
    (Built /\ IsByteSeq(ret.command)) => CalculateCRC(ret.command) = <<0, 0>>

C27_Witness ==
    /\ Built
    /\ args.functionCode = 16
    /\ args.registerCount = 2
    /\ args.registerValues = ArrayValues(<<4660, 43981>>)
    /\ IsByteSeq(ret.command)
    /\ Len(ret.command) = 13
    /\ CalculateCRC(ret.command) = <<0, 0>>

AllPowerDataArrived ==
    /\ page.phase = "ready"
    /\ \A i \in 1..Len(inflight) : inflight[i].path # "/power"

\* C28: once every refresh that was started has been answered, the status
\* shown is that of the refresh started last and the readings shown are
\* those of the newest refresh that delivered readings, never those of a
\* refresh started earlier whose response arrived later.
C28_LatestRefreshShown ==
    AllPowerDataArrived =>
        /\ page.connectionStatus.seq = page.started
        /\ page.powerData.seq = page.newestData

\* the power requests in flight
PowerRequests == {i \in 1..Len(inflight) : inflight[i].path = "/power"}

\* the base URL the configuration asks for
ExpectedBase ==
    IF /\ page.config.kind = "ok"
       /\ page.config.body.has
       /\ page.config.body.API_BASE_URL # ""
    THEN page.config.body.API_BASE_URL
    ELSE "http://localhost:8080/api"

\* C29: before loadConfiguration has finished no power-data request has been
\* issued and no refresh timer runs; every power-data request goes to the
\* API base URL of the configuration when it was loaded with a non-empty
\* API_BASE_URL, and to the default base URL when the configuration request
\* failed, had a status that is not ok, or lacked the field.
C29_ConfigurationFirst ==
    /\ page.phase \in {"init", "config"} =>
          /\ page.started = 0
          /\ ~page.timer
          /\ PowerRequests = {}
    /\ \A i \in PowerRequests : inflight[i].url = ExpectedBase

C29_Witness ==
    /\ page.config.kind = "ok"
    /\ \E i \in PowerRequests :
          /\ inflight[i].seq = 1
          /\ inflight[i].url = "http://meter.local:8080/api"
    /\ \E i \in PowerRequests :
          /\ inflight[i].seq = 3
          /\ inflight[i].url = "http://meter.local:8080/api"

C29_DefaultWitness ==
    /\ page.config.kind = "notOk"
    /\ \E i \in PowerRequests :
          /\ inflight[i].seq = 2
          /\ inflight[i].url = "http://localhost:8080/api"

ActiveTabs == {t \in DOMAIN page.tabs : page.tabs[t]}
ActivePanels == {c \in DOMAIN page.panels : page.panels[c]}

\* C30: after any sequence of tab clicks exactly one tab and exactly one
\* panel have the class 'active', the active panel is the one the data-tab
\* attribute of the active tab names, and the active tab is the tab clicked
\* last, or the main tab when no tab was clicked.
C30_OneActiveTab ==
    /\ Cardinality(ActiveTabs) = 1
    /\ Cardinality(ActivePanels) = 1
    /\ ActivePanels = ActiveTabs
    /\ (op = "clickTab") => ActiveTabs = {args.tab}
    /\ (op = "none") => ActiveTabs = {"mainTab"}

C30_Witness ==
    /\ op = "clickTab"
    /\ args.tab = "registerTab"
    /\ ActiveTabs = {"registerTab"}
    /\ ActivePanels = {"registerTab"}
    /\ dom.modbusFunctionCode = <<"1", "6">>

====
